---- MODULE Spec2Model ----
(***************************************************************************)
(* A model of the virtio-gpu driver in                                     *)
(* kernel/comps/virtio/src/device/gpu/device.rs (GPUDevice).               *)
(*                                                                         *)
(* Several execution contexts ("callers") invoke the driver operations     *)
(* resolution, setup_framebuffer, flush, update_cursor and                 *)
(* request_edid_info on one shared GPUDevice.  Every operation is a        *)
(* sequence of command functions; every command function performs one      *)
(* round trip on the control queue or on the cursor queue:                 *)
(*   write the request region, write the default response, take the queue  *)
(*   lock, add_dma_buf (+ notify), spin until can_pop, pop_used, read the  *)
(*   response, check its header type, return (dropping the lock guard).    *)
(* The device is a separate process that completes the oldest available    *)
(* descriptor of a queue.                                                  *)
(*                                                                         *)
(* Specifications:                                                         *)
(*   Spec        callers invoke the public operations concurrently         *)
(*   SpecDirect  callers also call command functions one by one            *)
(*   SpecInit    GPUDevice::init runs init_frame_buffer                    *)
(*   SpecSession init_frame_buffer, then callers invoke the operations     *)
(*   SpecIrq     Spec, with interrupts of the queues and of the config     *)
(*   SpecLive    Spec, with fair callers, a fair lock and a fair device    *)
(*   SpecWide    Spec, with a device that reports very large displays      *)
(***************************************************************************)
EXTENDS Integers, Sequences, FiniteSets, TLC

\* ------------------------------------------------------------------ bounds
NumCallers == 2
MaxCalls == 1
MaxIrqs == 1

Callers == 1..NumCallers
NoCaller == 0

\* --------------------------------------------------------------- constants
\* resource id of the framebuffer (0xbabe) and of the cursor image (0xdade)
FB_RESOURCE_ID == 47806
CURSOR_RESOURCE_ID == 56030
NO_RESOURCE == 0
ResourceIds == {FB_RESOURCE_ID, CURSOR_RESOURCE_ID}

\* bytes of a frame, as setup_framebuffer takes it
PAGE_SIZE == 4096

Queues == {"control", "cursor"}

\* request header types (VirtioGpuCtrlType::VIRTIO_GPU_CMD_*)
CmdTypes ==
  {"GET_DISPLAY_INFO", "GET_EDID", "RESOURCE_CREATE_2D", "RESOURCE_ATTACH_BACKING",
   "SET_SCANOUT", "TRANSFER_TO_HOST_2D", "RESOURCE_FLUSH", "UPDATE_CURSOR"}

\* response header types (VirtioGpuCtrlType::VIRTIO_GPU_RESP_*); RESP_DEFAULT is
\* the header type of a default-constructed response
RESP_DEFAULT == "RESP_DEFAULT"
RESP_OK_NODATA == "RESP_OK_NODATA"
RESP_OK_DISPLAY_INFO == "RESP_OK_DISPLAY_INFO"
RESP_OK_EDID == "RESP_OK_EDID"
RESP_ERR_UNSPEC == "RESP_ERR_UNSPEC"
RespTypes == {RESP_DEFAULT, RESP_OK_NODATA, RESP_OK_DISPLAY_INFO, RESP_OK_EDID, RESP_ERR_UNSPEC}

\* rectangles of scanout 0 (width, height); ZeroRect is the rectangle of a
\* default-constructed response.  The device reports one of two display
\* sizes: 32 x 32 (4096 bytes, a whole number of frames) or 33 x 32
ZeroRect == [width |-> 0, height |-> 0]
DisplayRects == {[width |-> 32, height |-> 32], [width |-> 33, height |-> 32]}

\* displays of 2^30 pixels and more, whose framebuffer has 2^32 bytes and more
WideRects == {[width |-> 32768, height |-> 32768], [width |-> 32769, height |-> 32768]}

\* ------------------------------------------------------- the driver's code
\* the command functions of GPUDevice
Functions ==
  {"request_edid_info", "request_display_info", "resource_create_2d",
   "resource_attch_backing", "set_scanout", "transfer_to_host_2d",
   "resource_flush", "update_cursor"}

\* the driver operations callers invoke
Operations == {"resolution", "setup_framebuffer", "flush", "update_cursor", "request_edid_info"}

\* the command functions test_cursor calls on the device one by one
DirectCalls == {"resource_create_2d", "resource_attch_backing", "transfer_to_host_2d"}

\* (mutation of Body: flush does not query the display info again)
BodyFlushNoQuery(o) ==
  CASE o = "resolution" -> <<"request_display_info">>
    [] o = "setup_framebuffer" ->
         <<"request_display_info", "resource_create_2d", "resource_attch_backing", "set_scanout">>
    [] o = "flush" -> <<"transfer_to_host_2d", "resource_flush">>
    [] o = "update_cursor" -> <<"update_cursor">>
    [] o = "request_edid_info" -> <<"request_edid_info">>
    [] o = "init_frame_buffer" ->
         <<"request_display_info", "request_edid_info",
           "request_display_info", "resource_create_2d", "resource_attch_backing", "set_scanout",
           "transfer_to_host_2d", "resource_flush">>
    [] o \in DirectCalls -> <<o>>

\* (mutation of Body: flush creates the framebuffer resource again)
BodyFlushRecreates(o) ==
  CASE o = "resolution" -> <<"request_display_info">>
    [] o = "setup_framebuffer" ->
         <<"request_display_info", "resource_create_2d", "resource_attch_backing", "set_scanout">>
    [] o = "flush" ->
         <<"request_display_info", "resource_create_2d", "transfer_to_host_2d", "resource_flush">>
    [] o = "update_cursor" -> <<"update_cursor">>
    [] o = "request_edid_info" -> <<"request_edid_info">>
    [] o = "init_frame_buffer" ->
         <<"request_display_info", "request_edid_info",
           "request_display_info", "resource_create_2d", "resource_attch_backing", "set_scanout",
           "request_display_info", "resource_create_2d", "transfer_to_host_2d", "resource_flush">>
    [] o \in DirectCalls -> <<o>>

\* the command functions an operation calls, in program order; each call is
\* followed by `?`, so the operation goes on only when the call returned Ok
Body(o) ==
  CASE o = "resolution" -> <<"request_display_info">>
    [] o = "setup_framebuffer" ->
         <<"request_display_info", "resource_create_2d", "resource_attch_backing", "set_scanout">>
    [] o = "flush" -> <<"request_display_info", "transfer_to_host_2d", "resource_flush">>
    [] o = "update_cursor" -> <<"update_cursor">>
    [] o = "request_edid_info" -> <<"request_edid_info">>
    \* init_frame_buffer: resolution, request_edid_info, setup_framebuffer, flush
    [] o = "init_frame_buffer" ->
         <<"request_display_info", "request_edid_info",
           "request_display_info", "resource_create_2d", "resource_attch_backing", "set_scanout",
           "request_display_info", "transfer_to_host_2d", "resource_flush">>
    \* a command function called on the device directly
    [] o \in DirectCalls -> <<o>>

\* (mutation of QueueOf: the cursor command goes through the control queue)
QueueOfControlOnly(f) == "control"

\* the queue (and so the SpinLock and the pair of DMA regions) a function uses
QueueOf(f) == IF f = "update_cursor" THEN "cursor" ELSE "control"

\* the header type of the request a function writes
CmdType(f) ==
  CASE f = "request_edid_info" -> "GET_EDID"
    [] f = "request_display_info" -> "GET_DISPLAY_INFO"
    [] f = "resource_create_2d" -> "RESOURCE_CREATE_2D"
    [] f = "resource_attch_backing" -> "RESOURCE_ATTACH_BACKING"
    [] f = "set_scanout" -> "SET_SCANOUT"
    [] f = "transfer_to_host_2d" -> "TRANSFER_TO_HOST_2D"
    [] f = "resource_flush" -> "RESOURCE_FLUSH"
    [] f = "update_cursor" -> "UPDATE_CURSOR"

\* the resource id a function puts in its request
ResourceIdOf(f) ==
  CASE f \in {"resource_create_2d", "resource_attch_backing", "set_scanout",
              "transfer_to_host_2d", "resource_flush"} -> FB_RESOURCE_ID
    [] f = "update_cursor" -> CURSOR_RESOURCE_ID
    [] OTHER -> NO_RESOURCE

\* (mutation of HeaderTypeOk: only an error response is refused)
HeaderTypeNotError(f, type) ==
  CASE f = "request_display_info" -> TRUE
    [] OTHER -> type # RESP_ERR_UNSPEC

\* (mutation of HeaderTypeOk: the check is left out)
HeaderTypeUnchecked(f, type) == TRUE

\* the type check a function applies to the response it read:
\* TRUE when the function returns Ok
HeaderTypeOk(f, type) ==
  CASE f = "request_display_info" -> TRUE
    [] f = "request_edid_info" -> type = RESP_OK_EDID
    [] OTHER -> type = RESP_OK_NODATA

\* the default-constructed response a function writes before it submits
\* `for` is not part of the response: it names the descriptor chain the
\* device wrote the response for (NoChain: nobody's, the driver wrote it)
NoChain == [owner |-> NoCaller, call |-> 0, n |-> 0]
DefaultResp == [type |-> RESP_DEFAULT, rect |-> ZeroRect, for |-> NoChain]


\* the content of a request region nobody has written yet
\* the arguments of update_cursor(resource_id, scanout_id, pos_x, pos_y, hot_x,
\* hot_y, move_only): those test_cursor passes, and others
CursorArgs ==
  {[resource_id |-> CURSOR_RESOURCE_ID, scanout_id |-> 0, pos_x |-> 0, pos_y |-> 0,
    hot_x |-> 0, hot_y |-> 0],
   [resource_id |-> FB_RESOURCE_ID, scanout_id |-> 1, pos_x |-> 5, pos_y |-> 7,
    hot_x |-> 1, hot_y |-> 2]}

NoCursorArgs ==
  [resource_id |-> NO_RESOURCE, scanout_id |-> 0, pos_x |-> 0, pos_y |-> 0,
   hot_x |-> 0, hot_y |-> 0]

\* the cursor fields of a request that is no update-cursor command
NoCursor ==
  [scanout_id |-> 0, pos_x |-> 0, pos_y |-> 0, resource_id |-> NO_RESOURCE,
   hot_x |-> 0, hot_y |-> 0]

\* update_cursor: VirtioGpuCursorPos::new(scanout_id, 0, 0) and
\* VirtioGpuUpdateCursor::new(cursor_pos, 0xdade, 32, 32) for arguments a
UpdateCursorOf(a) ==
  [scanout_id |-> a.scanout_id, pos_x |-> 0, pos_y |-> 0,
   resource_id |-> CURSOR_RESOURCE_ID, hot_x |-> 32, hot_y |-> 32]

NoRequest ==
  [type |-> "NONE", resource_id |-> NO_RESOURCE, rect |-> ZeroRect, mem_len |-> 0,
   cursor |-> NoCursor, writer |-> NoCaller]

\* setup_framebuffer: `size` of the framebuffer in bytes, 4 bytes per pixel
FrameBufferSize(rect) == rect.width * rect.height * 4

\* `size` counted in pixels of 4 bytes: `size` itself is a usize of 64 bits
\* and can exceed the integers of the model checker
BYTES_PER_PIXEL == 4
FrameBufferPixels(rect) == rect.width * rect.height

\* the number of pixels in 2^32 bytes
U32_PIXELS == 1073741824

\* `size as u32`: the low 32 bits of `size`, in bytes, for a size in pixels
SizeAsU32(pixels) == (pixels % U32_PIXELS) * BYTES_PER_PIXEL

\* setup_framebuffer: `fracme_num`, the frames of the segment it allocates
FrameNum(pixels) == pixels \div (PAGE_SIZE \div BYTES_PER_PIXEL) + 1

\* the lifecycle state a resource id enters when a command on it succeeds
\* ("None": the command is no lifecycle transition)
LifecycleOf(f) ==
  CASE f = "resource_create_2d" -> "Created"
    [] f = "resource_attch_backing" -> "Backed"
    [] f = "set_scanout" -> "ScannedOut"
    [] OTHER -> "None"

\* the request struct a function builds from the operation's local `rect`
RequestOf(f, rect, t) ==
  [type |-> CmdType(f),
   resource_id |-> ResourceIdOf(f),
   rect |-> IF f \in {"resource_create_2d", "set_scanout", "transfer_to_host_2d", "resource_flush"}
            THEN rect ELSE ZeroRect,
   mem_len |-> 0,
   cursor |-> NoCursor,
   writer |-> t]

\* ------------------------------------------------------------------- state
VARIABLES
  pc,        \* pc[t]: the step caller t performs next ("idle": not in an operation)
  op,        \* op[t]: the operation caller t is in, or returned from last
  idx,       \* idx[t]: position in Body(op[t]) of the function being executed
  rect,      \* rect[t]: the operation's local `rect` (from display_info.get_rect(0))
  hist,      \* hist[t]: the round trips of the current (or last) operation of t
  result,    \* result[t]: what the last operation returned: "none", "Ok", "Err"
  calls,     \* calls[t]: number of operations t has invoked
  lock,      \* lock[q]: holder of the queue's SpinLock, NoCaller when free
  avail,     \* avail[q]: descriptor chains added and not yet used by the device
  used,      \* used[q]: descriptor chains the device has used, not yet popped
  notified,  \* notified[q]: the doorbell was rung for the last chain added
  request,   \* request[q]: content of the request DMA region
  response,  \* response[q]: content of the response DMA region
  panic,     \* "none", or the message of the panic that stopped the kernel
  setup_ok,  \* some setup_framebuffer has returned Ok
  after_setup, \* after_setup[t]: setup_ok held when t invoked its operation
  resources, \* resources[id]: lifecycle state of the id, by the commands that succeeded
  frame_num, \* frame_num[t]: frames of the segment t's setup_framebuffer allocated
  irq_log,   \* number of interrupts the handlers have logged
  cursor_arg, \* cursor_arg[t]: the arguments of t's call of update_cursor
  displays   \* the sizes the device may report for scanout 0

vars ==
  <<pc, op, idx, rect, hist, result, calls, lock, avail, used, notified,
    request, response, panic, setup_ok, after_setup, resources, frame_num, irq_log,
                 cursor_arg, displays>>

\* the function caller t is executing, and its queue
CurFn(t) == Body(op[t])[idx[t]]
CurQueue(t) == QueueOf(CurFn(t))

Running(t) == pc[t] # "idle" /\ panic = "none"

\* the state GPUDevice::init leaves: queues empty, locks free, regions fresh
InitDisplays(d) ==
  /\ pc = [t \in Callers |-> "idle"]
  /\ op = [t \in Callers |-> "none"]
  /\ idx = [t \in Callers |-> 0]
  /\ rect = [t \in Callers |-> ZeroRect]
  /\ hist = [t \in Callers |-> <<>>]
  /\ result = [t \in Callers |-> "none"]
  /\ calls = [t \in Callers |-> 0]
  /\ lock = [q \in Queues |-> NoCaller]
  /\ avail = [q \in Queues |-> <<>>]
  /\ used = [q \in Queues |-> <<>>]
  /\ notified = [q \in Queues |-> FALSE]
  /\ request = [q \in Queues |-> NoRequest]
  /\ response = [q \in Queues |-> DefaultResp]
  /\ panic = "none"
  /\ setup_ok = FALSE
  /\ after_setup = [t \in Callers |-> FALSE]
  /\ resources = [id \in ResourceIds |-> "None"]
  /\ frame_num = [t \in Callers |-> 0]
  /\ irq_log = 0
  /\ cursor_arg = [t \in Callers |-> NoCursorArgs]
  /\ displays = d

\* the state after GPUDevice::init, with a device of ordinary display sizes
Init == InitDisplays(DisplayRects)

\* ----------------------------------------------------------------- actions
\* a caller invokes a driver operation
Call(t, o) ==
  /\ panic = "none"
  /\ pc[t] = "idle"
  /\ calls[t] < MaxCalls
  /\ op' = [op EXCEPT ![t] = o]
  /\ idx' = [idx EXCEPT ![t] = 1]
  /\ pc' = [pc EXCEPT ![t] = "write_req"]
  /\ rect' = [rect EXCEPT ![t] = ZeroRect]
  /\ hist' = [hist EXCEPT ![t] = <<>>]
  /\ result' = [result EXCEPT ![t] = "none"]
  /\ calls' = [calls EXCEPT ![t] = @ + 1]
  /\ after_setup' = [after_setup EXCEPT ![t] = setup_ok]
  /\ frame_num' = [frame_num EXCEPT ![t] = 0]
  /\ \E a \in (IF o = "update_cursor" THEN CursorArgs ELSE {NoCursorArgs}) :
       cursor_arg' = [cursor_arg EXCEPT ![t] = a]
  /\ UNCHANGED <<lock, avail, used, notified, request, response, panic, setup_ok,
                 resources, irq_log, displays>>

\* "Prepare request data DMA buffer": write_val + sync on the request region,
\* before the queue lock is taken
WriteRequest(t) ==
  /\ Running(t)
  /\ pc[t] = "write_req"
  /\ request' = [request EXCEPT ![CurQueue(t)] =
                    [RequestOf(CurFn(t), rect[t], t) EXCEPT !.cursor =
                       IF CurFn(t) = "update_cursor"
                       THEN UpdateCursorOf(cursor_arg[t]) ELSE NoCursor]]
  /\ pc' = [pc EXCEPT ![t] =
              IF CurFn(t) = "resource_attch_backing" THEN "write_mem" ELSE "write_resp"]
  /\ UNCHANGED <<op, idx, rect, hist, result, calls, lock, avail, used, notified,
                 response, panic, setup_ok, after_setup, resources, frame_num, irq_log,
                 cursor_arg, displays>>

\* resource_attch_backing: the memory entry, written behind the request struct
WriteMemEntry(t) ==
  /\ Running(t)
  /\ pc[t] = "write_mem"
  /\ request' = [request EXCEPT ![CurQueue(t)] =
                   [@ EXCEPT !.mem_len = SizeAsU32(FrameBufferPixels(rect[t])),
                               !.writer = t]]
  /\ pc' = [pc EXCEPT ![t] = "write_resp"]
  /\ UNCHANGED <<op, idx, rect, hist, result, calls, lock, avail, used, notified,
                 response, panic, setup_ok, after_setup, resources, frame_num, irq_log,
                 cursor_arg, displays>>

\* "Prepare response DMA buffer": the default response is written to the
\* response region, before the queue lock is taken
WriteResponse(t) ==
  /\ Running(t)
  /\ pc[t] = "write_resp"
  /\ response' = [response EXCEPT ![CurQueue(t)] = DefaultResp]
  /\ pc' = [pc EXCEPT ![t] = "lock"]
  /\ UNCHANGED <<op, idx, rect, hist, result, calls, lock, avail, used, notified,
                 request, panic, setup_ok, after_setup, resources, frame_num, irq_log,
                 cursor_arg, displays>>

\* (mutation of CanLock: the queue is entered without waiting for the lock)
CanLockUnchecked(t, q) == TRUE

\* self.<queue>.disable_irq().lock(): spins until the SpinLock is free
CanLock(t, q) == lock[q] = NoCaller

LockQueue(t) ==
  /\ Running(t)
  /\ pc[t] = "lock"
  /\ CanLock(t, CurQueue(t))
  /\ lock' = [lock EXCEPT ![CurQueue(t)] = t]
  /\ pc' = [pc EXCEPT ![t] = "add"]
  /\ UNCHANGED <<op, idx, rect, hist, result, calls, avail, used, notified,
                 request, response, panic, setup_ok, after_setup, resources, frame_num, irq_log,
                 cursor_arg, displays>>

\* the arguments a function is called with: the resource id, and the
\* operation's local `rect` where the function takes it
Args(f, r) ==
  [resource_id |-> ResourceIdOf(f),
   rect |-> IF f \in {"resource_create_2d", "set_scanout", "transfer_to_host_2d", "resource_flush"}
            THEN r ELSE ZeroRect]

\* a round trip of hist: the function and its arguments, what became of it on the transport,
\* the response header type read, and what the function returned
RoundTrip(f, r) ==
  [fn |-> f, args |-> Args(f, r), transport |-> "added", resp |-> "pending",
   ret |-> "pending"]

\* the descriptor chain of caller t's current round trip
Chain(t) == [owner |-> t, call |-> calls[t], n |-> Len(hist[t])]

\* add_dma_buf succeeds; `if queue.should_notify() { queue.notify() }`
AddDmaBuf(t) ==
  /\ Running(t)
  /\ pc[t] = "add"
  /\ avail' = [avail EXCEPT ![CurQueue(t)] =
                 Append(@, [owner |-> t, call |-> calls[t], n |-> Len(hist[t]) + 1])]
  /\ \E should_notify \in BOOLEAN :
       notified' = [notified EXCEPT ![CurQueue(t)] = should_notify]
  /\ hist' = [hist EXCEPT ![t] = Append(@, RoundTrip(CurFn(t), rect[t]))]
  /\ pc' = [pc EXCEPT ![t] = "pop"]
  /\ UNCHANGED <<op, idx, rect, result, calls, lock, used, request, response,
                 panic, setup_ok, after_setup, resources, frame_num, irq_log,
                 cursor_arg, displays>>

\* add_dma_buf returns an error: .expect("Add buffers to queue failed") panics
AddDmaBufFails(t) ==
  /\ Running(t)
  /\ pc[t] = "add"
  /\ hist' = [hist EXCEPT ![t] =
                Append(@, [RoundTrip(CurFn(t), rect[t]) EXCEPT !.transport = "add_failed"])]
  /\ panic' = "Add buffers to queue failed"
  /\ UNCHANGED <<pc, op, idx, rect, result, calls, lock, avail, used, notified,
                 request, response, setup_ok, after_setup, resources, frame_num, irq_log,
                 cursor_arg, displays>>

\* queue.can_pop()
CanPop(q) == used[q] # <<>>

\* `while !queue.can_pop() { spin_loop() }` is left, and pop_used succeeds
PopUsed(t) ==
  /\ Running(t)
  /\ pc[t] = "pop"
  /\ CanPop(CurQueue(t))
  /\ used' = [used EXCEPT ![CurQueue(t)] = Tail(@)]
  /\ hist' = [hist EXCEPT ![t][Len(hist[t])].transport = "popped"]
  /\ pc' = [pc EXCEPT ![t] = "read"]
  /\ UNCHANGED <<op, idx, rect, result, calls, lock, avail, notified, request,
                 response, panic, setup_ok, after_setup, resources, frame_num, irq_log,
                 cursor_arg, displays>>

\* pop_used returns an error: .expect("Pop used failed") panics
PopUsedFails(t) ==
  /\ Running(t)
  /\ pc[t] = "pop"
  /\ CanPop(CurQueue(t))
  /\ hist' = [hist EXCEPT ![t][Len(hist[t])].transport = "pop_failed"]
  /\ panic' = "Pop used failed"
  /\ UNCHANGED <<pc, op, idx, rect, result, calls, lock, avail, used, notified,
                 request, response, setup_ok, after_setup, resources, frame_num, irq_log,
                 cursor_arg, displays>>


\* what the function returns for the response it read, and where the
\* operation goes from there: `?` returns the error at once, Ok goes on to the
\* next function of the body or returns Ok from the operation
Returns(f, type) == IF HeaderTypeOk(f, type) THEN "Ok" ELSE "Err"

LastFn(t) == idx[t] = Len(Body(op[t]))

\* setup_framebuffer allocates the framebuffer segment when resource_create_2d
\* has returned Ok, before it calls resource_attch_backing
AllocatesAfter(t) ==
  /\ op[t] \in {"setup_framebuffer", "init_frame_buffer"}
  /\ CurFn(t) = "resource_create_2d"

\* init_frame_buffer: the message of the .expect() on the operation that the
\* idx-th function of its body belongs to
InitExpect(i) ==
  CASE i = 1 -> "failed to get resolution"
    [] i = 2 -> "failed to get edid info"
    [] i \in 3..6 -> "failed to setup framebuffer"
    [] OTHER -> "failed to flush"

\* resp_slice.sync(); read_val; the header type check; the function returns
\* and the guard of the queue lock is dropped
ReadResponse(t) ==
  LET q == CurQueue(t)
      f == CurFn(t)
      resp == response[q]
      ret == Returns(f, resp.type)
  IN
  /\ Running(t)
  /\ pc[t] = "read"
  /\ hist' = [hist EXCEPT ![t][Len(hist[t])].resp = resp.type,
                          ![t][Len(hist[t])].ret = ret]
  /\ rect' = [rect EXCEPT ![t] = IF f = "request_display_info" THEN resp.rect ELSE @]
  /\ lock' = [lock EXCEPT ![q] = NoCaller]
  /\ resources' = IF ret = "Ok" /\ LifecycleOf(f) # "None"
                  THEN [resources EXCEPT ![ResourceIdOf(f)] = LifecycleOf(f)]
                  ELSE resources
  /\ frame_num' = IF ret = "Ok" /\ AllocatesAfter(t)
                  THEN [frame_num EXCEPT ![t] = FrameNum(FrameBufferPixels(rect[t]))]
                  ELSE frame_num
  /\ IF ret = "Ok" /\ ~LastFn(t)
     THEN /\ idx' = [idx EXCEPT ![t] = @ + 1]
          /\ pc' = [pc EXCEPT ![t] = "write_req"]
          /\ UNCHANGED <<result, setup_ok, panic>>
     ELSE /\ pc' = [pc EXCEPT ![t] = "idle"]
          /\ result' = [result EXCEPT ![t] = ret]
          /\ setup_ok' = (setup_ok \/ (ret = "Ok" /\ op[t] = "setup_framebuffer"))
          /\ panic' = IF ret = "Err" /\ op[t] = "init_frame_buffer"
                      THEN InitExpect(idx[t]) ELSE panic
          /\ UNCHANGED idx
  /\ UNCHANGED <<op, calls, avail, used, notified, request, response, after_setup,
                 irq_log,
                 cursor_arg, displays>>

\* ------------------------------------------------------------- the device
\* the success code of a command
SuccessCode(type) ==
  CASE type = "GET_DISPLAY_INFO" -> RESP_OK_DISPLAY_INFO
    [] type = "GET_EDID" -> RESP_OK_EDID
    [] OTHER -> RESP_OK_NODATA

\* the device uses a chain without writing anything to the response region
NoWrite == [type |-> "NO_WRITE", rect |-> ZeroRect]

\* what the device may do with the request it finds in the request region:
\* write the success response of that command, write an error response, or
\* use the chain and write no response
DeviceAnswers(req) ==
  (IF req.type = "GET_DISPLAY_INFO"
   THEN {[type |-> RESP_OK_DISPLAY_INFO, rect |-> r] : r \in displays}
   ELSE {[type |-> SuccessCode(req.type), rect |-> ZeroRect]})
  \cup {[type |-> RESP_ERR_UNSPEC, rect |-> ZeroRect], NoWrite}

\* the device takes the oldest available chain of a queue, reads the request
\* region, writes its response to the response region and marks the chain used
DeviceComplete(q) ==
  /\ panic = "none"
  /\ avail[q] # <<>>
  /\ \E a \in DeviceAnswers(request[q]) :
       response' = IF a = NoWrite
                   THEN response
                   ELSE [response EXCEPT ![q] =
                           [type |-> a.type, rect |-> a.rect, for |-> Head(avail[q])]]
  /\ used' = [used EXCEPT ![q] = Append(@, Head(avail[q]))]
  /\ avail' = [avail EXCEPT ![q] = Tail(@)]
  /\ UNCHANGED <<pc, op, idx, rect, hist, result, calls, lock, notified, request,
                 panic, setup_ok, after_setup, resources, frame_num, irq_log,
                 cursor_arg, displays>>

\* ------------------------------------------------------------- interrupts
\* (mutation of HandleIrq: the handler pops the used chain, as the handler
\* of virtio_block does)
HandleIrqPops(q) ==
  /\ panic = "none"
  /\ irq_log < MaxIrqs
  /\ used[q] # <<>>
  /\ used' = [used EXCEPT ![q] = Tail(@)]
  /\ irq_log' = irq_log + 1
  /\ UNCHANGED <<pc, op, idx, rect, hist, result, calls, lock, avail, notified,
                 request, response, panic, setup_ok, after_setup, resources, frame_num,
                 cursor_arg, displays>>

\* handle_irq, the callback of the control and of the cursor queue: logs
HandleIrq(q) ==
  /\ panic = "none"
  /\ irq_log < MaxIrqs
  /\ irq_log' = irq_log + 1
  /\ UNCHANGED <<pc, op, idx, rect, hist, result, calls, lock, avail, used, notified,
                 request, response, panic, setup_ok, after_setup, resources, frame_num,
                 cursor_arg, displays>>

\* handle_config_change, the callback of configuration changes: logs
HandleConfigChange ==
  /\ panic = "none"
  /\ irq_log < MaxIrqs
  /\ irq_log' = irq_log + 1
  /\ UNCHANGED <<pc, op, idx, rect, hist, result, calls, lock, avail, used, notified,
                 request, response, panic, setup_ok, after_setup, resources, frame_num,
                 cursor_arg, displays>>

\* ----------------------------------------------------------- specification
\* the steps of the operations in progress, and of the device
Step ==
  \/ \E t \in Callers : WriteRequest(t)
  \/ \E t \in Callers : WriteMemEntry(t)
  \/ \E t \in Callers : WriteResponse(t)
  \/ \E t \in Callers : LockQueue(t)
  \/ \E t \in Callers : AddDmaBuf(t)
  \/ \E t \in Callers : AddDmaBufFails(t)
  \/ \E t \in Callers : PopUsed(t)
  \/ \E t \in Callers : PopUsedFails(t)
  \/ \E t \in Callers : ReadResponse(t)
  \/ \E q \in Queues : DeviceComplete(q)

\* callers invoke the public operations of the device
Next ==
  \/ \E t \in Callers : \E o \in Operations : Call(t, o)
  \/ Step

Spec == Init /\ [][Next]_vars

\* callers also call command functions on the device one by one, as
\* test_cursor does
NextDirect ==
  \/ \E t \in Callers : \E f \in DirectCalls : Call(t, f)
  \/ Next

SpecDirect == Init /\ [][NextDirect]_vars

\* interrupts of the queues and of the configuration arrive at any time
NextIrq ==
  \/ \E q \in Queues : HandleIrq(q)
  \/ HandleConfigChange
  \/ Next

SpecIrq == Init /\ [][NextIrq]_vars

\* component initialisation: GPUDevice::init has built the device and calls
\* init_frame_buffer, once
InitCaller == 1

NextInit ==
  \/ Call(InitCaller, "init_frame_buffer")
  \/ Step

SpecInit == Init /\ [][NextInit]_vars

\* init_frame_buffer has returned: the framebuffer is set up and flushed
InitDone ==
  op[InitCaller] = "init_frame_buffer" /\ pc[InitCaller] = "idle" /\ result[InitCaller] = "Ok"

\* a session of the device: component initialisation, and once it is over
\* callers invoke the public operations
NextSession ==
  \/ Call(InitCaller, "init_frame_buffer") /\ op[InitCaller] = "none"
  \/ InitDone /\ \E t \in Callers : \E o \in Operations : Call(t, o)
  \/ Step

SpecSession == Init /\ [][NextSession]_vars

\* the steps of caller t that wait for nothing but the processor
Proceeds(t) ==
  \/ WriteRequest(t)
  \/ WriteMemEntry(t)
  \/ WriteResponse(t)
  \/ AddDmaBuf(t)
  \/ AddDmaBufFails(t)
  \/ PopUsed(t)
  \/ PopUsedFails(t)
  \/ ReadResponse(t)

\* every caller keeps running, a caller that finds the lock free again and
\* again gets it, and the device completes every chain made available to it
Fairness ==
  /\ \A t \in Callers : WF_vars(Proceeds(t))
  /\ \A t \in Callers : SF_vars(LockQueue(t))
  /\ \A q \in Queues : WF_vars(DeviceComplete(q))

SpecLive == Init /\ [][Next]_vars /\ Fairness

\* the device reports a display of 2^30 pixels or more
InitWide == InitDisplays(WideRects)

SpecWide == InitWide /\ [][Next]_vars


\* ================================================================== claims
\* the functions of hist, in order
Fns(h) == [i \in 1..Len(h) |-> h[i].fn]

\* the round trips of h whose response has been read
Finished(h) == {i \in 1..Len(h) : h[i].ret # "pending"}

\* a round trip read the success code of its command
ReadSuccess(e) == e.resp = SuccessCode(CmdType(e.fn))

\* the descriptor chains of a queue that were added and are not yet popped
InFlight(q) == avail[q] \o used[q]

\* ---- C1 ----
\* C1: in every reachable state each queue has at most one request that was
\* enqueued and not yet popped, and the queue's lock is held by the caller
\* that enqueued it, from the enqueue until the pop.
C1_OneInFlight ==
  \A q \in Queues :
    /\ Len(InFlight(q)) <= 1
    /\ \A i \in 1..Len(InFlight(q)) : lock[q] = InFlight(q)[i].owner

\* a request is in flight (the device has completed it, it is not yet popped)
\* while another caller waits for the lock of the same queue
C1_Witness ==
  \E q \in Queues : \E t, u \in Callers :
    /\ t # u
    /\ Len(used[q]) = 1 /\ used[q][1].owner = t /\ lock[q] = t
    /\ pc[u] = "lock" /\ CurQueue(u) = q

\* ---- C2 ----
\* C2: every write to an adapter's request or response DMA region is
\* performed by a caller that holds that adapter's queue lock at the moment
\* of the write.
C2_WritesUnderLock ==
  [][\A t \in Callers :
       (WriteRequest(t) \/ WriteMemEntry(t) \/ WriteResponse(t))
         => lock[CurQueue(t)] = t]_vars

\* ---- C3 ----
StateMutating ==
  {"resource_create_2d", "resource_attch_backing", "set_scanout",
   "transfer_to_host_2d", "resource_flush", "update_cursor"}

\* C3: a state-mutating command returns Ok if and only if the response header
\* type it read after completion is RESP_OK_NODATA; for every other type,
\* the default included, it returns an error.
C3_OkIffNoData ==
  \A t \in Callers : \A i \in Finished(hist[t]) :
    hist[t][i].fn \in StateMutating =>
      /\ hist[t][i].ret \in {"Ok", "Err"}
      /\ hist[t][i].ret = "Ok" <=> hist[t][i].resp = RESP_OK_NODATA

\* one state-mutating command has returned Ok, and another one has read the
\* pre-initialised default response and returned an error
C3_Witness ==
  \E t, u \in Callers :
    /\ \E i \in Finished(hist[t]) :
         /\ hist[t][i].fn \in StateMutating
         /\ hist[t][i].resp = RESP_OK_NODATA /\ hist[t][i].ret = "Ok"
    /\ \E j \in Finished(hist[u]) :
         /\ hist[u][j].fn \in StateMutating
         /\ hist[u][j].resp = RESP_DEFAULT /\ hist[u][j].ret = "Err"


\* ---- C4 ----
\* C4: the display-info query fails with an error whenever the response
\* header type it read is not RESP_OK_DISPLAY_INFO, and the rectangle of such
\* a response is never used.
C4_DisplayInfoChecked ==
  \A t \in Callers : \A i \in Finished(hist[t]) :
    (hist[t][i].fn = "request_display_info" /\ hist[t][i].resp # RESP_OK_DISPLAY_INFO)
      => hist[t][i].ret = "Err"

\* ---- C5 ----
\* C5: when add_dma_buf fails, or pop_used fails after can_pop was observed,
\* the operation returns an error value to its caller; the driver is not
\* aborted.
C5_TransportErrorReturned ==
  \A t \in Callers : \A i \in 1..Len(hist[t]) :
    hist[t][i].transport \in {"add_failed", "pop_failed"}
      => (panic = "none" /\ pc[t] = "idle" /\ result[t] = "Err")

\* ---- C6 ----
\* C6: within one call of an operation each command is enqueued at most once,
\* and a round trip is followed by another one of the same call only if it
\* had no transport error and read the success code of its command.
C6_NoRetry ==
  \A t \in Callers :
    /\ \A i, j \in 1..Len(hist[t]) : i # j => hist[t][i].fn # hist[t][j].fn
    /\ \A i \in 1..(Len(hist[t]) - 1) :
         hist[t][i].transport = "popped" /\ ReadSuccess(hist[t][i])

\* ---- C7 ----
SetupOrder ==
  <<"request_display_info", "resource_create_2d", "resource_attch_backing", "set_scanout">>

IsPrefix(a, b) == Len(a) <= Len(b) /\ \A i \in 1..Len(a) : a[i] = b[i]

\* C7: setup_framebuffer submits GET_DISPLAY_INFO, RESOURCE_CREATE_2D,
\* RESOURCE_ATTACH_BACKING, SET_SCANOUT in this order, each one only after the
\* previous one completed successfully; when a step fails it returns the
\* error at once and submits nothing more, and it returns Ok only when all
\* four steps succeeded.
C7_SetupOrder ==
  \A t \in Callers :
    op[t] = "setup_framebuffer" =>
      /\ IsPrefix(Fns(hist[t]), SetupOrder)
      /\ \A i \in 1..(Len(hist[t]) - 1) : ReadSuccess(hist[t][i])
      /\ \A i \in Finished(hist[t]) :
           ~ReadSuccess(hist[t][i]) => (pc[t] = "idle" /\ result[t] = "Err")
      /\ (pc[t] = "idle" /\ result[t] = "Ok") =>
           (Len(hist[t]) = 4 /\ \A i \in 1..4 : ReadSuccess(hist[t][i]))

\* ---- C8 ----
\* C8: flush submits TRANSFER_TO_HOST_2D before RESOURCE_FLUSH;
\* RESOURCE_FLUSH is never submitted unless TRANSFER_TO_HOST_2D read
\* RESP_OK_NODATA, and flush returns Ok only if both commands read
\* RESP_OK_NODATA.
C8_FlushOrder ==
  \A t \in Callers :
    op[t] = "flush" =>
      /\ \A i \in 1..Len(hist[t]) :
           hist[t][i].fn = "resource_flush" =>
             \E j \in 1..(i - 1) :
               /\ hist[t][j].fn = "transfer_to_host_2d"
               /\ hist[t][j].resp = RESP_OK_NODATA
      /\ (pc[t] = "idle" /\ result[t] = "Ok") =>
           \E j, k \in 1..Len(hist[t]) :
             /\ j < k
             /\ hist[t][j].fn = "transfer_to_host_2d" /\ hist[t][j].resp = RESP_OK_NODATA
             /\ hist[t][k].fn = "resource_flush" /\ hist[t][k].resp = RESP_OK_NODATA

\* one flush has returned Ok, and another flush has returned the error of a
\* failed TRANSFER_TO_HOST_2D without submitting RESOURCE_FLUSH
C8_Witness ==
  \E t, u \in Callers :
    /\ op[t] = "flush" /\ pc[t] = "idle" /\ result[t] = "Ok"
    /\ op[u] = "flush" /\ pc[u] = "idle" /\ result[u] = "Err"
    /\ hist[u][Len(hist[u])].fn = "transfer_to_host_2d"
    /\ hist[u][Len(hist[u])].resp = RESP_ERR_UNSPEC

\* ---- C9 ----
\* a flush, invoked after a setup_framebuffer returned Ok, has ended and every
\* round trip of it read the success code of its command
FlushAgainstSuccess(t) ==
  /\ op[t] = "flush" /\ pc[t] = "idle" /\ panic = "none"
  /\ after_setup[t]
  /\ \A i \in 1..Len(hist[t]) : ReadSuccess(hist[t][i])

\* C9 (as stated): against a device that answers every control command with
\* its success code, one flush after a successful setup_framebuffer makes
\* exactly two control-queue round trips, TRANSFER_TO_HOST_2D then
\* RESOURCE_FLUSH, and no other.
C9_FlushTwoRoundTrips ==
  \A t \in Callers :
    FlushAgainstSuccess(t) =>
      Fns(hist[t]) = <<"transfer_to_host_2d", "resource_flush">>

\* C9 (amended): against such a device the flush makes exactly three
\* control-queue round trips, GET_DISPLAY_INFO, TRANSFER_TO_HOST_2D then
\* RESOURCE_FLUSH, in that order, and no other, and returns Ok.
C9_FlushThreeRoundTrips ==
  \A t \in Callers :
    FlushAgainstSuccess(t) =>
      /\ Fns(hist[t]) =
           <<"request_display_info", "transfer_to_host_2d", "resource_flush">>
      /\ \A i \in 1..Len(hist[t]) : QueueOf(hist[t][i].fn) = "control"
      /\ result[t] = "Ok"

C9_Witness == \E t \in Callers : FlushAgainstSuccess(t) /\ result[t] = "Ok"


\* ---- C10 ----
\* the next step of caller t's operation, transport failures aside
Proceed(t) ==
  \/ WriteRequest(t) \/ WriteMemEntry(t) \/ WriteResponse(t) \/ LockQueue(t)
  \/ AddDmaBuf(t) \/ PopUsed(t) \/ ReadResponse(t)

\* what an update_cursor waits for on the cursor queue itself: the cursor
\* lock when it is about to take it, the device's completion of its request
\* when it is about to pop
CursorQueueReady(t) ==
  /\ pc[t] = "lock" => lock["cursor"] = NoCaller
  /\ pc[t] = "pop" => used["cursor"] # <<>>

\* C10: a cursor update is never blocked by the control queue: whatever the
\* state of the control queue and of its lock, an update_cursor takes the cursor
\* lock as soon as that lock is free, goes on once the cursor queue's device
\* has completed its request, and can take every other step at once.
C10_CursorNotBlocked ==
  \A t \in Callers :
    (Running(t) /\ op[t] = "update_cursor" /\ CursorQueueReady(t))
      => ENABLED Proceed(t)

\* a caller is inside a control-queue command the device has not completed,
\* holding the control lock, while another caller's update_cursor holds the
\* cursor lock and has popped its completed request
C10_Witness ==
  \E t, u \in Callers :
    /\ t # u
    /\ lock["control"] = u /\ pc[u] = "pop" /\ avail["control"] # <<>>
    /\ op[t] = "update_cursor" /\ lock["cursor"] = t /\ pc[t] = "read"

\* ---- C11 ----
\* a step taken by caller t: its position moves, or its round trip fails
StepOf(t) == pc'[t] # pc[t] \/ hist'[t] # hist[t]

\* everything that belongs to one queue adapter: lock, queue, DMA regions
Adapter(q) == <<lock[q], avail[q], used[q], notified[q], request[q], response[q]>>

\* C11: no step of an update_cursor changes the control adapter (its lock, its
\* queue, its request and response regions), and no step of an operation on
\* the control queue changes the cursor adapter.
C11_AdaptersIndependent ==
  [][\A t \in Callers :
       StepOf(t) =>
         IF op'[t] = "update_cursor"
         THEN UNCHANGED Adapter("control")
         ELSE UNCHANGED Adapter("cursor")]_vars

\* an update_cursor has returned Ok while another caller's control command is
\* in flight, its request still in the control region and the control
\* response region still holding the default
C11_Witness ==
  \E t, u \in Callers :
    /\ op[t] = "update_cursor" /\ pc[t] = "idle" /\ result[t] = "Ok"
    /\ lock["control"] = u /\ avail["control"] # <<>>
    /\ request["control"].writer = u /\ response["control"] = DefaultResp
    /\ request["cursor"].writer = t

\* ---- C12 ----
\* caller u waits for the lock of queue q
WaitsForLock(u, q) == Running(u) /\ pc[u] = "lock" /\ CurQueue(u) = q

\* C12: there is no timeout: over every step in which the device has not
\* completed the request submitted on a queue, the caller that submitted it
\* stays in its wait for the completion without having returned Ok or Err, it
\* keeps the queue's lock, and every caller waiting for that lock keeps
\* waiting.
C12_NoTimeout ==
  [][\A q \in Queues :
       (avail[q] # <<>> /\ avail'[q] # <<>>) =>
         LET t == Head(avail[q]).owner IN
         /\ pc[t] = "pop" /\ pc'[t] = "pop"
         /\ result[t] = "none" /\ result'[t] = "none"
         /\ lock[q] = t /\ lock'[q] = t
         /\ \A u \in Callers : WaitsForLock(u, q) => pc'[u] = "lock"]_vars

\* the device has not completed a caller's request, the caller spins in its
\* wait holding the lock, and a later caller of the same queue waits for the
\* lock
C12_Witness ==
  \E q \in Queues : \E t, u \in Callers :
    /\ avail[q] # <<>> /\ Head(avail[q]).owner = t
    /\ pc[t] = "pop" /\ lock[q] = t /\ result[t] = "none"
    /\ u # t /\ WaitsForLock(u, q)

\* ---- C13 ----
\* C13: a resource_attch_backing for a resource id for which no
\* resource_create_2d has succeeded yet is rejected before the transport: no
\* request of it gets as far as the control queue.
C13_AttachNeedsCreated ==
  \A t \in Callers : \A i \in 1..Len(hist[t]) :
    hist[t][i].fn = "resource_attch_backing"
      => resources[ResourceIdOf(hist[t][i].fn)] # "None"

\* ---- C14 ----
\* a resource_create_2d of the round trips h has returned Ok
CreateOk(h) == \E i \in 1..Len(h) : h[i].fn = "resource_create_2d" /\ h[i].ret = "Ok"

\* caller t's resource_create_2d reads a response that is not RESP_OK_NODATA
CreateReadsFailure(t) ==
  /\ pc[t] = "read" /\ pc'[t] # "read"
  /\ CurFn(t) = "resource_create_2d"
  /\ response[CurQueue(t)].type # RESP_OK_NODATA

\* C14: a failed RESOURCE_CREATE_2D leaves the lifecycle state of the resource
\* ids as it was: no step of a setup_framebuffer whose resource_create_2d has
\* not returned Ok changes the state of an id, and when resource_create_2d
\* reads an error response setup_framebuffer returns the error at that step,
\* with nothing allocated.
C14_FailedCreateChangesNothing ==
  [][\A t \in Callers :
       /\ (StepOf(t) /\ op'[t] = "setup_framebuffer" /\ ~CreateOk(hist'[t]))
            => UNCHANGED resources
       /\ (op[t] = "setup_framebuffer" /\ CreateReadsFailure(t))
            => /\ pc'[t] = "idle" /\ result'[t] = "Err"
               /\ hist'[t][Len(hist'[t])].ret = "Err"
               /\ frame_num'[t] = 0
               /\ UNCHANGED resources]_vars

\* a setup_framebuffer has returned the error of a RESOURCE_CREATE_2D the
\* device answered with an error type, and the framebuffer id has no state
C14_Witness ==
  \E t \in Callers :
    /\ op[t] = "setup_framebuffer" /\ pc[t] = "idle" /\ result[t] = "Err"
    /\ Len(hist[t]) = 2
    /\ hist[t][2].fn = "resource_create_2d" /\ hist[t][2].resp = RESP_ERR_UNSPEC
    /\ resources[FB_RESOURCE_ID] = "None"

\* ---- C15 ----
\* C15: RESOURCE_CREATE_2D is never submitted for a resource id for which an
\* earlier RESOURCE_CREATE_2D has already succeeded: while a
\* resource_create_2d is submitted and has not returned, the id it names has no
\* lifecycle state yet.
C15_NoIdReuse ==
  \A t \in Callers : \A i \in 1..Len(hist[t]) :
    (hist[t][i].fn = "resource_create_2d" /\ hist[t][i].ret = "pending"
       /\ hist[t][i].transport # "add_failed")
      => resources[ResourceIdOf(hist[t][i].fn)] = "None"

\* ---- C16 ----
\* the position of a lifecycle state along None, Created, Backed, ScannedOut
Rank(s) ==
  CASE s = "None" -> 0
    [] s = "Created" -> 1
    [] s = "Backed" -> 2
    [] s = "ScannedOut" -> 3

\* round trip i of h comes after a round trip of function f that returned Ok
AfterOk(h, i, f) == \E j \in 1..(i - 1) : h[j].fn = f /\ h[j].ret = "Ok"

\* an operation submits SET_SCANOUT only after its RESOURCE_ATTACH_BACKING
\* succeeded, and RESOURCE_ATTACH_BACKING only after its RESOURCE_CREATE_2D
\* succeeded
LifecycleOrder ==
  \A t \in Callers : \A i \in 1..Len(hist[t]) :
    /\ hist[t][i].fn = "set_scanout" => AfterOk(hist[t], i, "resource_attch_backing")
    /\ hist[t][i].fn = "resource_attch_backing" => AfterOk(hist[t], i, "resource_create_2d")

\* C16: the lifecycle state of every resource id only moves forward along
\* Created, Backed, ScannedOut: no step moves an id back to an earlier state,
\* and the commands of an id are submitted in that order, each after the
\* previous one succeeded.
C16_LifecycleMonotonic ==
  [][/\ \A id \in ResourceIds : Rank(resources'[id]) >= Rank(resources[id])
     /\ LifecycleOrder']_vars

\* ---- C17 ----
\* C17: a GET_EDID answered with a type other than RESP_OK_EDID does not stop
\* the initialisation: init_frame_buffer does not abort on it and goes on to
\* the framebuffer setup.
C17_EdidFailureNotFatal ==
  \A t \in Callers : \A i \in Finished(hist[t]) :
    (op[t] = "init_frame_buffer" /\ hist[t][i].fn = "request_edid_info"
       /\ hist[t][i].resp # RESP_OK_EDID)
      => /\ panic # "failed to get edid info"
         /\ i = Len(hist[t]) => (pc[t] = "write_req" /\ CurFn(t) = "request_display_info")

\* ---- C18 ----
\* the round trips of the flushes that have returned with every round trip
\* having read the success code of its command: the flush operations of the
\* callers, and the flush at the end of init_frame_buffer
AcceptedFlushes ==
  {hist[t] : t \in {u \in Callers :
     /\ op[u] = "flush" /\ pc[u] = "idle" /\ hist[u] # <<>>
     /\ \A i \in 1..Len(hist[u]) : ReadSuccess(hist[u][i])}}
  \cup
  {SubSeq(hist[t], 7, Len(hist[t])) : t \in {u \in Callers :
     /\ op[u] = "init_frame_buffer" /\ pc[u] = "idle" /\ Len(hist[u]) >= 7
     /\ \A i \in 7..Len(hist[u]) : ReadSuccess(hist[u][i])}}

\* the display size a flush worked on
FlushRect(h) == h[Len(h)].args.rect

\* every accepted flush is the same three successful round trips, and two of
\* them on the same display size are equal round trip for round trip:
\* function, arguments, response type and return value
FlushesAgree ==
  \A a, b \in AcceptedFlushes :
    /\ Fns(a) = <<"request_display_info", "transfer_to_host_2d", "resource_flush">>
    /\ a[Len(a)].ret = "Ok"
    /\ FlushRect(a) = FlushRect(b) => a = b

\* C18: flush is idempotent: against a device that accepts every command,
\* flushes of an unchanged display all succeed and submit the same commands
\* with the same arguments, and no step of a flush changes the lifecycle state
\* of a resource id.
C18_FlushIdempotent ==
  [][/\ FlushesAgree'
     /\ \A t \in Callers :
          (StepOf(t) /\ (op'[t] = "flush" \/ (op'[t] = "init_frame_buffer" /\ idx[t] >= 7)))
            => UNCHANGED resources]_vars

\* after an initialisation that set up and flushed the framebuffer, a caller's
\* flush of the same display has returned Ok, and the framebuffer resource is
\* still scanned out
C18_Witness ==
  /\ InitDone
  /\ \E t \in Callers :
       /\ op[t] = "flush" /\ pc[t] = "idle" /\ result[t] = "Ok"
       /\ hist[t] \in AcceptedFlushes
       /\ hist[t] = SubSeq(hist[InitCaller], 7, 9)
  /\ resources[FB_RESOURCE_ID] = "ScannedOut"

\* ---- C19 ----
\* C19: the response an operation reads after its pop is what the device
\* wrote for that same request, or the default response the driver wrote
\* before the submission; it is never the response left by an earlier command.
C19_NoStaleResponse ==
  \A t \in Callers :
    pc[t] = "read" =>
      \/ response[CurQueue(t)] = DefaultResp
      \/ response[CurQueue(t)].for = Chain(t)

\* ---- C20 ----
\* the smallest multiple of PAGE_SIZE that is greater than or equal to size
RoundUpToPage(size) == ((size + PAGE_SIZE - 1) \div PAGE_SIZE) * PAGE_SIZE

\* C20: for every display size with width > 0 and height > 0, the buffer
\* setup_framebuffer allocates has width * height * 4 bytes rounded up to the
\* page granularity: the smallest multiple of 4096 that is greater than or
\* equal to width * height * 4.
C20_AllocRoundedUp ==
  \A t \in Callers :
    (op[t] = "setup_framebuffer" /\ frame_num[t] > 0
       /\ rect[t].width > 0 /\ rect[t].height > 0)
      => frame_num[t] * PAGE_SIZE = RoundUpToPage(FrameBufferSize(rect[t]))

\* ---- C21 ----
\* C21: every round trip is self-consistent, also with several callers on a
\* queue: while a chain is available to the device the request region holds
\* what the caller that enqueued the chain wrote, and from the device's
\* completion of a chain until its caller has read the response nobody
\* changes the response region.
C21_RoundTripSelfConsistent ==
  [][\A q \in Queues :
       /\ avail[q] # <<>> => request[q].writer = Head(avail[q]).owner
       /\ (used[q] # <<>> \/ \E t \in Callers : pc[t] = "read" /\ CurQueue(t) = q)
            => response'[q] = response[q]]_vars

\* ---- C22 ----
\* the order of the steps of a round trip: from each position, the next ones
StepOrder ==
  {<<"idle", "write_req">>, <<"write_req", "write_mem">>, <<"write_req", "write_resp">>,
   <<"write_mem", "write_resp">>, <<"write_resp", "lock">>, <<"lock", "add">>,
   <<"add", "pop">>, <<"pop", "read">>, <<"read", "write_req">>, <<"read", "idle">>}

\* caller t enqueues the chain of its round trip in this step
Enqueues(t, q) == avail'[q] = Append(avail[q], Chain(t)')

\* C22: every round trip takes its steps in one order: the request (and the
\* default response) is written before the chain is enqueued; the doorbell
\* changes only in the step that enqueues, after the enqueue; a chain is
\* popped only by the caller that enqueued it, when can_pop is true, once,
\* and before the response is read and the operation goes on or returns.
C22_StepOrder ==
  [][/\ \A t \in Callers : pc'[t] # pc[t] => <<pc[t], pc'[t]>> \in StepOrder
     /\ \A q \in Queues :
          /\ avail'[q] # avail[q] /\ Len(avail'[q]) > Len(avail[q]) =>
               \E t \in Callers :
                 /\ pc[t] = "add" /\ pc'[t] = "pop" /\ CurQueue(t) = q
                 /\ Enqueues(t, q)
          /\ notified'[q] # notified[q] =>
               \E t \in Callers : pc[t] = "add" /\ CurQueue(t) = q /\ Enqueues(t, q)
          /\ used'[q] # used[q] /\ Len(used'[q]) < Len(used[q]) =>
               \E t \in Callers :
                 /\ pc[t] = "pop" /\ pc'[t] = "read" /\ CurQueue(t) = q
                 /\ CanPop(q) /\ Head(used[q]) = Chain(t)
                 /\ used'[q] = Tail(used[q])]_vars

\* a caller has written its request, enqueued it with the doorbell rung,
\* popped the chain the device completed and is about to read the response
C22_Witness ==
  \E t \in Callers :
    /\ pc[t] = "read" /\ notified[CurQueue(t)]
    /\ hist[t][Len(hist[t])].transport = "popped"
    /\ request[CurQueue(t)].writer = t
    /\ response[CurQueue(t)].for = Chain(t)

\* ---- C23 ----
\* Everything of the driver but the interrupt log: the locks, the queues,
\* the DMA regions and every caller's position.
driverState ==
  <<pc, op, idx, rect, hist, result, calls, lock, avail, used, notified,
    request, response, panic, setup_ok, after_setup, resources, frame_num,
                 cursor_arg, displays>>

\* a caller that spins on can_pop with the lock of its queue held
BlockedWaiter(t) == pc[t] = "pop" /\ lock[CurQueue(t)] = t

\* C23: an interrupt or configuration-change handler pops no used chain,
\* takes neither lock and changes no queue or buffer state: a step that
\* handles an interrupt leaves the whole driver state as it was, so a
\* blocked waiter can pop after it exactly when it could before it; and a
\* handler never waits for anything a caller holds, so it cannot deadlock.
C23_HandlersInert ==
  [][/\ irq_log' # irq_log => UNCHANGED driverState
     /\ \A q \in Queues :
          (panic = "none" /\ irq_log < MaxIrqs) => ENABLED HandleIrq(q)
     /\ (panic = "none" /\ irq_log < MaxIrqs) => ENABLED HandleConfigChange
     /\ \A t \in Callers :
          (irq_log' # irq_log /\ BlockedWaiter(t))
            => /\ BlockedWaiter(t)'
               /\ CanPop(CurQueue(t))' = CanPop(CurQueue(t))]_vars

\* an interrupt was handled while a caller held the lock and the device
\* had already completed its chain; the chain is still there for the caller
C23_Witness ==
  /\ irq_log > 0
  /\ \E t \in Callers :
       /\ BlockedWaiter(t)
       /\ CanPop(CurQueue(t))
       /\ Head(used[CurQueue(t)]) = Chain(t)

\* ---- C24 ----
\* the operation of caller t has returned
Returned(t) == pc[t] = "idle" /\ op[t] # "none" /\ result[t] \in {"Ok", "Err"}

\* caller t is inside the locked part of a command function
InLockedPart(t) == pc[t] \in {"add", "pop", "read"}

\* C24: whenever an operation has returned, with Ok or with Err, the lock
\* it took is released and its queue holds no descriptor chain of that
\* call; the same holds between the command functions of an operation; and
\* no caller holds the control lock and the cursor lock at once.
C24_ReturnedReleases ==
  /\ \A t \in Callers :
       Returned(t) =>
         \A q \in Queues :
           /\ lock[q] # t
           /\ \A i \in 1..Len(InFlight(q)) : InFlight(q)[i].owner # t
  /\ \A t \in Callers :
       ~InLockedPart(t) =>
         \A q \in Queues :
           /\ lock[q] # t
           /\ \A i \in 1..Len(InFlight(q)) : InFlight(q)[i].owner # t
  /\ \A t \in Callers : ~(lock["control"] = t /\ lock["cursor"] = t)

\* one caller has returned Err and another Ok, both after a used chain was
\* popped, while a third party could take either lock
C24_Witness ==
  \E t, u \in Callers :
    /\ Returned(t) /\ result[t] = "Err"
    /\ Returned(u) /\ result[u] = "Ok"
    /\ hist[t][Len(hist[t])].transport = "popped"
    /\ hist[u][Len(hist[u])].transport = "popped"
    /\ \A q \in Queues : lock[q] = NoCaller /\ InFlight(q) = <<>>

\* ---- C25 ----
\* C25: where the device completes every request and the lock is granted
\* fairly, every call of a public operation by one of several concurrent
\* callers eventually returns.
C25_EveryCallReturns ==
  \A t \in Callers : (pc[t] # "idle") ~> Returned(t)

\* ---- C26 ----
\* the update-cursor command of caller t is on the cursor queue: its chain is
\* available or used, and the request region holds what t wrote
CursorCommandPlaced(t) ==
  /\ op[t] = "update_cursor"
  /\ \E i \in 1..Len(InFlight("cursor")) : InFlight("cursor")[i] = Chain(t)
  /\ request["cursor"].writer = t
  /\ request["cursor"].type = CmdType("update_cursor")

\* C26: the update-cursor command that update_cursor places on the cursor
\* queue carries the caller's arguments: its resource id, its scanout id,
\* its position and its hot spot are those the caller passed.
C26_CursorCarriesArgs ==
  \A t \in Callers :
    CursorCommandPlaced(t) =>
      LET c == request["cursor"].cursor
          a == cursor_arg[t]
      IN /\ c.resource_id = a.resource_id
         /\ c.scanout_id = a.scanout_id
         /\ <<c.pos_x, c.pos_y>> = <<a.pos_x, a.pos_y>>
         /\ <<c.hot_x, c.hot_y>> = <<a.hot_x, a.hot_y>>

\* ---- C27 ----
\* no setup_framebuffer has succeeded in the session, and the framebuffer
\* resource id is not created and backed
NoFramebuffer == ~setup_ok /\ Rank(resources[FB_RESOURCE_ID]) < 2

\* C27: flush() called where no setup_framebuffer has succeeded fails with
\* a resource-state error and submits neither TRANSFER_TO_HOST_2D nor
\* RESOURCE_FLUSH to the control queue.
C27_FlushNeedsFramebuffer ==
  \A t \in Callers :
    (op[t] = "flush" /\ NoFramebuffer) =>
      /\ \A i \in 1..Len(hist[t]) :
           hist[t][i].fn \notin {"transfer_to_host_2d", "resource_flush"}
      /\ Returned(t) => result[t] = "Err"

\* ---- C28 ----
\* caller t's setup_framebuffer has written the memory entry of its
\* RESOURCE_ATTACH_BACKING command, and the request region still holds it
BackingWritten(t) ==
  /\ op[t] = "setup_framebuffer"
  /\ CurFn(t) = "resource_attch_backing"
  /\ pc[t] \in {"write_resp", "lock", "add", "pop", "read"}
  /\ request["control"].writer = t
  /\ request["control"].type = CmdType("resource_attch_backing")

\* C28: for every 32-bit width and height the device reports for scanout 0,
\* the backing length sent in the RESOURCE_ATTACH_BACKING memory entry
\* equals width*height*4 and does not exceed the size of the buffer that was
\* allocated: the conversion to a 32-bit length neither truncates nor wraps
\* it. (Lengths are compared in pixels of 4 bytes.)
C28_BackingLengthExact ==
  \A t \in Callers :
    BackingWritten(t) =>
      LET len == request["control"].mem_len
      IN /\ len % BYTES_PER_PIXEL = 0
         /\ len \div BYTES_PER_PIXEL = FrameBufferPixels(rect[t])
         /\ len \div BYTES_PER_PIXEL
              <= frame_num[t] * (PAGE_SIZE \div BYTES_PER_PIXEL)

====
